---- MODULE Spec2Model ----
(***************************************************************************)
(* The day-17 register machine (src/day17/src/main.rs): the instruction    *)
(* decoder, the interpreter (run_program, run_program_once) and the        *)
(* recursive reverse search for a self-reproducing value of register A.    *)
(***************************************************************************)
EXTENDS Integers, Sequences, FiniteSets, TLC

VARIABLES
    text,           \* the input file: registers and the (opcode, operand) pairs
    register_a,     \* Computer.register_a
    register_b,     \* Computer.register_b
    register_c,     \* Computer.register_c
    instructions,   \* Computer.instructions
    pointer,        \* Computer.pointer
    output,         \* Computer.output
    pc,             \* where the process is: start, ready, the running method, panic
    frames,         \* the call stack of reverse_engineer_register_a
    printouts,      \* the digit list `output` shared by the search's frames
    steps,          \* instructions executed by the run in progress
    prev,           \* the computer before the instruction executed last, and it
    calls,          \* the methods called so far, each with the load it was called on
    returned,       \* what the calls that have returned gave back
    loads,          \* how often the computer was built from the input
    panic           \* the panic message, "" while there is none

vars == << text, register_a, register_b, register_c, instructions, pointer,
           output, pc, frames, printouts, steps, prev, calls, returned, loads,
           panic >>

-----------------------------------------------------------------------------
(* u64 arithmetic.  A u64 is four 16-bit limbs, least significant first,   *)
(* so that the full 64-bit width is kept.                                   *)

Base == 2^16

\* The u64 with a value below 2^31.
U64(n) == << n % Base, n \div Base, 0, 0 >>

\* The value of a u64 below 2^31 (of its low 31 bits otherwise).
Small(x) == x[1] + (x[2] % (2^15)) * Base

IsZero(x) == x = << 0, 0, 0, 0 >>

RECURSIVE BitXor(_, _)
BitXor(a, b) ==
    IF a = 0 THEN b
    ELSE IF b = 0 THEN a
    ELSE ((a + b) % 2) + 2 * BitXor(a \div 2, b \div 2)

\* x ^ y
XorU64(x, y) ==
    << BitXor(x[1], y[1]), BitXor(x[2], y[2]),
       BitXor(x[3], y[3]), BitXor(x[4], y[4]) >>

\* x % 8
Mod8(x) == x[1] % 8

LimbAt(x, i) == IF i \in 1..4 THEN x[i] ELSE 0

\* x / 2^e with e rounded down to a whole number of limbs
ShrLimbs(x, e) ==
    LET q == e \div 16
    IN  << LimbAt(x, 1 + q), LimbAt(x, 2 + q), LimbAt(x, 3 + q), LimbAt(x, 4 + q) >>

\* x / 2^e for e < 64
ShrU64(x, e) ==
    LET q == e \div 16
        r == e % 16
        part(i) == (LimbAt(x, i + q) \div (2^r))
                   + (LimbAt(x, i + q + 1) % (2^r)) * (2^(16 - r))
    IN  << part(1), part(2), part(3), part(4) >>

\* x * (k + 1) in the place of x * k
MulSmallPlus(x, k) ==
    LET t1 == x[1] * (k + 1)
        t2 == x[2] * (k + 1) + (t1 \div Base)
        t3 == x[3] * (k + 1) + (t2 \div Base)
        t4 == x[4] * (k + 1) + (t3 \div Base)
    IN  [ value |-> << t1 % Base, t2 % Base, t3 % Base, t4 % Base >>,
          overflow |-> t4 \div Base # 0 ]

\* x * k and x + k for a small k: the wrapped value and whether it overflowed
MulSmall(x, k) ==
    LET t1 == x[1] * k
        t2 == x[2] * k + (t1 \div Base)
        t3 == x[3] * k + (t2 \div Base)
        t4 == x[4] * k + (t3 \div Base)
    IN  [ value |-> << t1 % Base, t2 % Base, t3 % Base, t4 % Base >>,
          overflow |-> t4 \div Base # 0 ]

AddSmall(x, k) ==
    LET t1 == x[1] + k
        t2 == x[2] + (t1 \div Base)
        t3 == x[3] + (t2 \div Base)
        t4 == x[4] + (t3 \div Base)
    IN  [ value |-> << t1 % Base, t2 % Base, t3 % Base, t4 % Base >>,
          overflow |-> t4 \div Base # 0 ]

\* x < y
LessU64(x, y) ==
    \E i \in 1..4 : /\ x[i] < y[i]
                    /\ \A j \in (i + 1)..4 : x[j] = y[j]

\* `as u32`: the low 32 bits
AsU32(x) == << x[1], x[2] >>

\* 2_u64.pow(exp) fits a u64 only for exp < 64
PowFits(exp) == exp[2] = 0 /\ exp[1] < 64

-----------------------------------------------------------------------------
(* Instruction *)

Opcodes == 0..7

ParseFailed == "Cound not parse opcode"

\* Instruction::parse with an opcode out of range read as Adv
ParseDefault(opcode, operand) ==
    CASE opcode = 1 -> [ variant |-> "Bxl", operand |-> operand ]
      [] opcode = 2 -> [ variant |-> "Bst", operand |-> operand ]
      [] opcode = 3 -> [ variant |-> "Jnz", operand |-> operand ]
      [] opcode = 4 -> [ variant |-> "Bxc", operand |-> operand ]
      [] opcode = 5 -> [ variant |-> "Out", operand |-> operand ]
      [] opcode = 6 -> [ variant |-> "Bdv", operand |-> operand ]
      [] opcode = 7 -> [ variant |-> "Cdv", operand |-> operand ]
      [] OTHER      -> [ variant |-> "Adv", operand |-> operand ]

\* Instruction::parse.  The variant that is no instruction stands for the panic.
Parse(opcode, operand) ==
    CASE opcode = 0 -> [ variant |-> "Adv", operand |-> operand ]
      [] opcode = 1 -> [ variant |-> "Bxl", operand |-> operand ]
      [] opcode = 2 -> [ variant |-> "Bst", operand |-> operand ]
      [] opcode = 3 -> [ variant |-> "Jnz", operand |-> operand ]
      [] opcode = 4 -> [ variant |-> "Bxc", operand |-> operand ]
      [] opcode = 5 -> [ variant |-> "Out", operand |-> operand ]
      [] opcode = 6 -> [ variant |-> "Bdv", operand |-> operand ]
      [] opcode = 7 -> [ variant |-> "Cdv", operand |-> operand ]
      [] OTHER      -> [ variant |-> ParseFailed, operand |-> operand ]

\* Instruction::as_numbers with the numbers of Bdv and Cdv exchanged
AsNumbersSwapped(instruction) ==
    CASE instruction.variant = "Adv" -> << 0, instruction.operand >>
      [] instruction.variant = "Bxl" -> << 1, instruction.operand >>
      [] instruction.variant = "Bst" -> << 2, instruction.operand >>
      [] instruction.variant = "Jnz" -> << 3, instruction.operand >>
      [] instruction.variant = "Bxc" -> << 4, instruction.operand >>
      [] instruction.variant = "Out" -> << 5, instruction.operand >>
      [] instruction.variant = "Bdv" -> << 7, instruction.operand >>
      [] instruction.variant = "Cdv" -> << 6, instruction.operand >>

\* Instruction::as_numbers
AsNumbers(instruction) ==
    CASE instruction.variant = "Adv" -> << 0, instruction.operand >>
      [] instruction.variant = "Bxl" -> << 1, instruction.operand >>
      [] instruction.variant = "Bst" -> << 2, instruction.operand >>
      [] instruction.variant = "Jnz" -> << 3, instruction.operand >>
      [] instruction.variant = "Bxc" -> << 4, instruction.operand >>
      [] instruction.variant = "Out" -> << 5, instruction.operand >>
      [] instruction.variant = "Bdv" -> << 6, instruction.operand >>
      [] instruction.variant = "Cdv" -> << 7, instruction.operand >>

-----------------------------------------------------------------------------
(* Computer.  The methods are operators on the record of the fields of    *)
(* the computer; panic is the message of the panic that ended the call.    *)

Computer(a, b, c, ins, p, out) ==
    [ register_a |-> a, register_b |-> b, register_c |-> c,
      instructions |-> ins, pointer |-> p, output |-> out, panic |-> "" ]

Panicked(self) == self.panic # ""

ComboFailed == "Encounter unrecognized combo operand"
PowFailed == "attempt to multiply with overflow or divide by zero"
NoOutput == "called Option::unwrap() on a None value"
NoCycle == "Could not get output number for this cycle"

\* get_combo_operand_value panics for an operand above 6
ComboPanics(combo) == combo > 6

\* get_combo_operand_value with the registers of 5 and 6 exchanged
GetComboOperandValueSwapped(self, combo) ==
    CASE combo \in 0..3 -> U64(combo)
      [] combo = 4 -> self.register_a
      [] combo = 5 -> self.register_c
      [] combo = 6 -> self.register_b

\* get_combo_operand_value
GetComboOperandValue(self, combo) ==
    CASE combo \in 0..3 -> U64(combo)
      [] combo = 4 -> self.register_a
      [] combo = 5 -> self.register_b
      [] combo = 6 -> self.register_c

\* fetch_instruction: the instruction at the pointer, if there is one
HasInstruction(self) == self.pointer + 1 \in DOMAIN self.instructions

FetchInstruction(self) == self.instructions[self.pointer + 1]

\* perform_adv, perform_bdv and perform_cdv storing the numerator before the
\* operand is looked at
DivPowStoresFirst(self, combo, field) ==
    IF ComboPanics(combo)
    THEN [ self EXCEPT ![field] = self.register_a, !.panic = ComboFailed ]
    ELSE LET exp == AsU32(GetComboOperandValue(self, combo))
         IN  IF ~PowFits(exp) THEN [ self EXCEPT !.panic = PowFailed ]
             ELSE [ self EXCEPT ![field] = ShrU64(self.register_a, exp[1]) ]

\* numerator / 2_u64.pow(exp) of perform_adv, perform_bdv and perform_cdv
DivPow(self, combo, field) ==
    IF ComboPanics(combo) THEN [ self EXCEPT !.panic = ComboFailed ]
    ELSE LET exp == AsU32(GetComboOperandValue(self, combo))
         IN  IF ~PowFits(exp) THEN [ self EXCEPT !.panic = PowFailed ]
             ELSE [ self EXCEPT ![field] = ShrU64(self.register_a, exp[1]) ]

\* Each perform_* gives the computer after it and whether to advance the pointer.
PerformAdv(self, combo) ==
    [ self |-> DivPow(self, combo, "register_a"), advance |-> TRUE ]

\* perform_bxl returning false, as perform_jnz does after a jump
PerformBxlStays(self, literal) ==
    [ self |-> [ self EXCEPT !.register_b = XorU64(self.register_b, U64(literal)) ],
      advance |-> FALSE ]

PerformBxl(self, literal) ==
    [ self |-> [ self EXCEPT !.register_b = XorU64(self.register_b, U64(literal)) ],
      advance |-> TRUE ]

PerformBst(self, combo) ==
    [ self |-> IF ComboPanics(combo) THEN [ self EXCEPT !.panic = ComboFailed ]
               ELSE [ self EXCEPT !.register_b =
                          U64(Mod8(GetComboOperandValue(self, combo))) ],
      advance |-> TRUE ]

\* perform_jnz returning true after a jump, so that the pointer also advances
PerformJnzAdvances(self, literal) ==
    IF IsZero(self.register_a)
    THEN [ self |-> self, advance |-> TRUE ]
    ELSE [ self |-> [ self EXCEPT !.pointer = literal ], advance |-> TRUE ]

PerformJnz(self, literal) ==
    IF IsZero(self.register_a)
    THEN [ self |-> self, advance |-> TRUE ]
    ELSE [ self |-> [ self EXCEPT !.pointer = literal ], advance |-> FALSE ]

PerformBxc(self) ==
    [ self |-> [ self EXCEPT !.register_b =
                     XorU64(self.register_b, self.register_c) ],
      advance |-> TRUE ]

\* perform_out pushing the number twice
PerformOutTwice(self, combo) ==
    [ self |-> IF ComboPanics(combo) THEN [ self EXCEPT !.panic = ComboFailed ]
               ELSE [ self EXCEPT !.output =
                          @ \o << Mod8(GetComboOperandValue(self, combo)),
                                  Mod8(GetComboOperandValue(self, combo)) >> ],
      advance |-> TRUE ]

\* perform_out pushing the value itself, not value % 8
PerformOutWhole(self, combo) ==
    [ self |-> IF ComboPanics(combo) THEN [ self EXCEPT !.panic = ComboFailed ]
               ELSE [ self EXCEPT !.output =
                          Append(@, Small(GetComboOperandValue(self, combo))) ],
      advance |-> TRUE ]

PerformOut(self, combo) ==
    [ self |-> IF ComboPanics(combo) THEN [ self EXCEPT !.panic = ComboFailed ]
               ELSE [ self EXCEPT !.output =
                          Append(@, Mod8(GetComboOperandValue(self, combo))) ],
      advance |-> TRUE ]

PerformBdv(self, combo) ==
    [ self |-> DivPow(self, combo, "register_b"), advance |-> TRUE ]

PerformCdv(self, combo) ==
    [ self |-> DivPow(self, combo, "register_c"), advance |-> TRUE ]

\* execute_instruction with the operand of Bxc looked up as a combo operand
ExecuteInstructionBxcCombo(self, instruction) ==
    LET op == instruction.operand
        done ==
            CASE instruction.variant = "Adv" -> PerformAdv(self, op)
              [] instruction.variant = "Bxl" -> PerformBxl(self, op)
              [] instruction.variant = "Bst" -> PerformBst(self, op)
              [] instruction.variant = "Jnz" -> PerformJnz(self, op)
              [] instruction.variant = "Bxc" ->
                    IF ComboPanics(op)
                    THEN [ self |-> [ self EXCEPT !.panic = ComboFailed ],
                           advance |-> TRUE ]
                    ELSE PerformBxc(self)
              [] instruction.variant = "Out" -> PerformOut(self, op)
              [] instruction.variant = "Bdv" -> PerformBdv(self, op)
              [] instruction.variant = "Cdv" -> PerformCdv(self, op)
    IN  IF Panicked(done.self) THEN done.self
        ELSE IF done.advance
             THEN [ done.self EXCEPT !.pointer = @ + 1 ]
             ELSE done.self

\* execute_instruction
ExecuteInstruction(self, instruction) ==
    LET op == instruction.operand
        done ==
            CASE instruction.variant = "Adv" -> PerformAdv(self, op)
              [] instruction.variant = "Bxl" -> PerformBxl(self, op)
              [] instruction.variant = "Bst" -> PerformBst(self, op)
              [] instruction.variant = "Jnz" -> PerformJnz(self, op)
              [] instruction.variant = "Bxc" -> PerformBxc(self)
              [] instruction.variant = "Out" -> PerformOut(self, op)
              [] instruction.variant = "Bdv" -> PerformBdv(self, op)
              [] instruction.variant = "Cdv" -> PerformCdv(self, op)
    IN  IF Panicked(done.self) THEN done.self
        ELSE IF done.advance
             THEN [ done.self EXCEPT !.pointer = @ + 1 ]
             ELSE done.self

\* u64::to_string
RECURSIVE U64ToString(_)
U64ToString(n) ==
    LET digit == CASE n % 10 = 0 -> "0" [] n % 10 = 1 -> "1" [] n % 10 = 2 -> "2"
                   [] n % 10 = 3 -> "3" [] n % 10 = 4 -> "4" [] n % 10 = 5 -> "5"
                   [] n % 10 = 6 -> "6" [] n % 10 = 7 -> "7" [] n % 10 = 8 -> "8"
                   [] n % 10 = 9 -> "9"
    IN  IF n < 10 THEN digit ELSE U64ToString(n \div 10) \o digit

\* strings.join(",")
RECURSIVE Join(_)
Join(strings) ==
    IF strings = << >> THEN ""
    ELSE IF Len(strings) = 1 THEN strings[1]
    ELSE strings[1] \o "," \o Join(Tail(strings))

\* create_output
CreateOutput(self) ==
    Join([ i \in DOMAIN self.output |-> U64ToString(self.output[i]) ])

-----------------------------------------------------------------------------
(* Bounds of the model *)

\* calls of run_program, run_program_once and find_self_outputing_register_a
MaxCalls == 2
\* times the computer is built from the input
MaxLoads == 2
\* instructions one run executes before the model stops following it
MaxSteps == 40

-----------------------------------------------------------------------------
(* The input file *)

U8Max == 255

OpcodeUnparsed == "Could not parse opcode"
OperandUnparsed == "Could not parse operand"

Input(a, b, c, program) ==
    [ register_a |-> a, register_b |-> b, register_c |-> c, program |-> program ]

\* The matches of (\d+),(\d+) in the program line: the numbers in pairs, a last
\* number without a partner matching nothing.
Captures(program) ==
    [ i \in 1..(Len(program) \div 2) |-> << program[2 * i - 1], program[2 * i] >> ]

\* The loop of from_string over the captures: the instructions parsed, or the
\* message of the first panic.
RECURSIVE ParseCaptures(_, _)
ParseCaptures(captures, parsed) ==
    IF captures = << >> THEN [ instructions |-> parsed, panic |-> "" ]
    ELSE LET opcode == Head(captures)[1]
             operand == Head(captures)[2]
             instruction == Parse(opcode, operand)
         IN  IF opcode > U8Max
             THEN [ instructions |-> parsed, panic |-> OpcodeUnparsed ]
             ELSE IF operand > U8Max
             THEN [ instructions |-> parsed, panic |-> OperandUnparsed ]
             ELSE IF instruction.variant = ParseFailed
             THEN [ instructions |-> parsed, panic |-> ParseFailed ]
             ELSE ParseCaptures(Tail(captures), Append(parsed, instruction))

\* Computer::from_string
FromStringOf(t) ==
    LET parsed == ParseCaptures(Captures(t.program), << >>)
    IN  [ Computer(t.register_a, t.register_b, t.register_c,
                   parsed.instructions, 0, << >>)
          EXCEPT !.panic = parsed.panic ]

-----------------------------------------------------------------------------
(* The loops of the methods, one iteration at a time *)

Zero == U64(0)

\* `as u8`
AsU8(n) == n % (U8Max + 1)

\* The loop of run_program_once returning at the end of the program only, not
\* when the pointer is back at 0
RunProgramOnceStepEndOnly(self) ==
    IF ~HasInstruction(self)
    THEN [ self |-> [ self EXCEPT !.panic = NoCycle ], returns |-> FALSE, printed |-> 0 ]
    ELSE LET after == ExecuteInstruction(self, FetchInstruction(self))
         IN  IF Panicked(after)
             THEN [ self |-> after, returns |-> FALSE, printed |-> 0 ]
             ELSE IF after.pointer = Len(self.instructions)
             THEN IF after.output = << >>
                  THEN [ self |-> [ after EXCEPT !.panic = NoOutput ],
                         returns |-> FALSE, printed |-> 0 ]
                  ELSE [ self |-> after, returns |-> TRUE,
                         printed |-> AsU8(after.output[Len(after.output)]) ]
             ELSE [ self |-> after, returns |-> FALSE, printed |-> 0 ]

\* The loop of run_program_once returning 0 when nothing was output
RunProgramOnceStepDefault(self) ==
    IF ~HasInstruction(self)
    THEN [ self |-> [ self EXCEPT !.panic = NoCycle ], returns |-> FALSE, printed |-> 0 ]
    ELSE LET after == ExecuteInstruction(self, FetchInstruction(self))
         IN  IF Panicked(after)
             THEN [ self |-> after, returns |-> FALSE, printed |-> 0 ]
             ELSE IF after.pointer = 0 \/ after.pointer = Len(self.instructions)
             THEN [ self |-> after, returns |-> TRUE,
                    printed |-> IF after.output = << >> THEN 0
                                ELSE AsU8(after.output[Len(after.output)]) ]
             ELSE [ self |-> after, returns |-> FALSE, printed |-> 0 ]

\* One iteration of the loop of run_program_once: the computer after it, whether
\* the method returns in it and the number it returns.
RunProgramOnceStep(self) ==
    IF ~HasInstruction(self)
    THEN [ self |-> [ self EXCEPT !.panic = NoCycle ], returns |-> FALSE, printed |-> 0 ]
    ELSE LET after == ExecuteInstruction(self, FetchInstruction(self))
             num_instructions == Len(self.instructions)
         IN  IF Panicked(after)
             THEN [ self |-> after, returns |-> FALSE, printed |-> 0 ]
             ELSE IF after.pointer = 0 \/ after.pointer = num_instructions
             THEN IF after.output = << >>
                  THEN [ self |-> [ after EXCEPT !.panic = NoOutput ],
                         returns |-> FALSE, printed |-> 0 ]
                  ELSE [ self |-> after, returns |-> TRUE,
                         printed |-> AsU8(after.output[Len(after.output)]) ]
             ELSE [ self |-> after, returns |-> FALSE, printed |-> 0 ]

\* The list of output numbers find_self_outputing_register_a builds
RECURSIVE OutputNumbers(_)
OutputNumbers(ins) ==
    IF ins = << >> THEN << >>
    ELSE << AsNumbers(Head(ins))[1], AsNumbers(Head(ins))[2] >>
         \o OutputNumbers(Tail(ins))

\* A call of reverse_engineer_register_a that has not popped its number yet
Frame(a) ==
    [ register_a |-> a, printout |-> 0, a |-> Zero, bound |-> Zero, printed |-> 0 ]

Returned(method, string, value, finished) ==
    [ method |-> method, output |-> string, value |-> value, finished |-> finished ]

Call(method) == [ method |-> method, load |-> loads ]

\* The range starting one above new_register_a_base
RangeStartAbove(new_register_a_base, bound_register_a) ==
    AddSmall(new_register_a_base, 1).value

\* The first value of the range new_register_a_base..bound_register_a
RangeStart(new_register_a_base, bound_register_a) == new_register_a_base

MulFailed == "attempt to multiply with overflow"
AddFailed == "attempt to add with overflow"

-----------------------------------------------------------------------------
(* The state machine *)

Self ==
    [ register_a |-> register_a, register_b |-> register_b,
      register_c |-> register_c, instructions |-> instructions,
      pointer |-> pointer, output |-> output, panic |-> "" ]

\* The computer becomes `self`; a panic ends the process.
Becomes(self) ==
    /\ register_a' = self.register_a
    /\ register_b' = self.register_b
    /\ register_c' = self.register_c
    /\ instructions' = self.instructions
    /\ pointer' = self.pointer
    /\ output' = self.output
    /\ panic' = self.panic

computer == << register_a, register_b, register_c, instructions, pointer, output >>

Top == frames[Len(frames)]

InitWith(inputs) ==
    /\ text \in inputs
    /\ register_a = Zero
    /\ register_b = Zero
    /\ register_c = Zero
    /\ instructions = << >>
    /\ pointer = 0
    /\ output = << >>
    /\ pc = "start"
    /\ frames = << >>
    /\ printouts = << >>
    /\ steps = 0
    /\ prev = << >>
    /\ calls = << >>
    /\ returned = << >>
    /\ loads = 0
    /\ panic = ""

\* main_part_one, main_part_two: Computer::from_string(&contents)
FromString ==
    /\ pc = "start"
    /\ LET self == FromStringOf(text)
       IN  IF Panicked(self)
           THEN /\ pc' = "panic"
                /\ panic' = self.panic
                /\ UNCHANGED computer
           ELSE /\ pc' = "ready"
                /\ Becomes(self)
    /\ loads' = loads + 1
    /\ UNCHANGED << text, frames, printouts, steps, prev, calls, returned >>

\* The computer is built again from the input, register A set to the input's own
\* value or to a value a search returned (the check of a found value by a full run).
Reload ==
    /\ pc = "ready"
    /\ loads < MaxLoads
    /\ \E a \in { text.register_a } \cup
                { returned[i].value : i \in { j \in DOMAIN returned :
                      returned[j].method = "find_self_outputing_register_a" } } :
          /\ text' = [ text EXCEPT !.register_a = a ]
          /\ Becomes(FromStringOf(text'))
    /\ loads' = loads + 1
    /\ steps' = 0
    /\ prev' = << >>
    /\ UNCHANGED << pc, frames, printouts, calls, returned >>

\* run_program beginning with the pointer and the output reset
CallRunProgramResets ==
    /\ pc = "ready"
    /\ Len(calls) < MaxCalls
    /\ pc' = "run_program"
    /\ calls' = Append(calls, Call("run_program"))
    /\ pointer' = 0
    /\ output' = << >>
    /\ steps' = 0
    /\ prev' = << >>
    /\ UNCHANGED << text, register_a, register_b, register_c, instructions, frames,
                    printouts, returned, loads, panic >>

\* computer.run_program()
CallRunProgram ==
    /\ pc = "ready"
    /\ Len(calls) < MaxCalls
    /\ pc' = "run_program"
    /\ calls' = Append(calls, Call("run_program"))
    /\ steps' = 0
    /\ prev' = << >>
    /\ UNCHANGED << text, computer, frames, printouts, returned, loads, panic >>

\* run_program: an iteration of its loop
RunProgramStep ==
    /\ pc = "run_program"
    /\ HasInstruction(Self)
    /\ steps < MaxSteps
    /\ LET self == ExecuteInstruction(Self, FetchInstruction(Self))
       IN  /\ Becomes(self)
           /\ pc' = IF Panicked(self) THEN "panic" ELSE pc
    /\ steps' = steps + 1
    /\ prev' = << [ self |-> Self, instruction |-> FetchInstruction(Self) ] >>
    /\ UNCHANGED << text, frames, printouts, calls, returned, loads >>

\* run_program panicking, as run_program_once does, when the pointer is beyond
\* the end of the program
RunProgramReturnPanics ==
    /\ pc = "run_program"
    /\ ~HasInstruction(Self)
    /\ IF pointer > Len(instructions)
       THEN /\ pc' = "panic"
            /\ panic' = NoCycle
            /\ UNCHANGED returned
       ELSE /\ returned' = Append(returned,
                                  Returned("run_program", CreateOutput(Self), Zero, TRUE))
            /\ pc' = "ready"
            /\ UNCHANGED panic
    /\ UNCHANGED << text, computer, frames, printouts, steps, prev, calls, loads >>

\* run_program: no instruction is fetched, the output is returned
RunProgramReturn ==
    /\ pc = "run_program"
    /\ ~HasInstruction(Self)
    /\ returned' = Append(returned,
                          Returned("run_program", CreateOutput(Self), Zero, TRUE))
    /\ pc' = "ready"
    /\ UNCHANGED << text, computer, frames, printouts, steps, prev, calls, loads,
                    panic >>

\* computer.run_program_once(), up to its loop
CallRunProgramOnce ==
    /\ pc = "ready"
    /\ Len(calls) < MaxCalls
    /\ pointer' = 0
    /\ output' = << >>
    /\ pc' = "run_program_once"
    /\ calls' = Append(calls, Call("run_program_once"))
    /\ steps' = 0
    /\ prev' = << >>
    /\ UNCHANGED << text, register_a, register_b, register_c, instructions,
                    frames, printouts, returned, loads, panic >>

\* run_program_once: an iteration of its loop.  The number it returns goes to the
\* caller: the search's frame (`printed`) or whoever called the method.
RunProgramOnceLoop ==
    /\ pc = "run_program_once"
    /\ steps < MaxSteps
    /\ LET step == RunProgramOnceStep(Self)
       IN  /\ Becomes(step.self)
           /\ pc' = IF Panicked(step.self) THEN "panic"
                    ELSE IF ~step.returns THEN pc
                    ELSE IF frames = << >> THEN "ready"
                    ELSE "printed"
           /\ returned' =
                  IF step.returns /\ frames = << >>
                  THEN Append(returned, Returned("run_program_once", "",
                                                 U64(step.printed), TRUE))
                  ELSE returned
           /\ frames' =
                  IF step.returns /\ frames # << >>
                  THEN [ frames EXCEPT ![Len(frames)].printed = step.printed ]
                  ELSE frames
    /\ steps' = IF HasInstruction(Self) THEN steps + 1 ELSE steps
    /\ prev' = IF HasInstruction(Self)
               THEN << [ self |-> Self, instruction |-> FetchInstruction(Self) ] >>
               ELSE prev
    /\ UNCHANGED << text, printouts, calls, loads >>

\* computer.find_self_outputing_register_a(), up to its call of
\* reverse_engineer_register_a(0, &mut output)
CallFind ==
    /\ pc = "ready"
    /\ Len(calls) < MaxCalls
    /\ printouts' = OutputNumbers(instructions)
    /\ frames' = << Frame(Zero) >>
    /\ pc' = "reverse_engineer_register_a"
    /\ calls' = Append(calls, Call("find_self_outputing_register_a"))
    /\ UNCHANGED << text, computer, steps, prev, returned, loads, panic >>

\* reverse_engineer_register_a, from its entry to its loop.  With nothing left to
\* reverse engineer it returns (true, register_a), which every caller returns in
\* turn and of which find_self_outputing_register_a returns the value.  The number
\* is popped first; then an overflow of register_a * 8 or of the bound panics in a
\* build that checks overflow and wraps in one that does not.
Enter ==
    /\ pc = "reverse_engineer_register_a"
    /\ IF printouts = << >>
       THEN /\ returned' = Append(returned,
                                  Returned("find_self_outputing_register_a", "",
                                           Top.register_a, TRUE))
            /\ frames' = << >>
            /\ pc' = "ready"
            /\ UNCHANGED << printouts, panic >>
       ELSE LET new_register_a_base == MulSmall(Top.register_a, 8)
                bound_register_a == AddSmall(new_register_a_base.value, 8)
                failed == IF new_register_a_base.overflow THEN MulFailed
                          ELSE IF bound_register_a.overflow THEN AddFailed
                          ELSE ""
            IN  \E checked \in IF failed = "" THEN { FALSE } ELSE BOOLEAN :
                    IF checked
                    THEN /\ printouts' = SubSeq(printouts, 1, Len(printouts) - 1)
                         /\ frames' = [ frames EXCEPT ![Len(frames)].printout =
                                            printouts[Len(printouts)] ]
                         /\ pc' = "panic"
                         /\ panic' = failed
                         /\ UNCHANGED returned
                    ELSE /\ printouts' = SubSeq(printouts, 1, Len(printouts) - 1)
                         /\ frames' = [ frames EXCEPT ![Len(frames)] =
                                [ @ EXCEPT !.printout = printouts[Len(printouts)],
                                           !.a = RangeStart(new_register_a_base.value,
                                                          bound_register_a.value),
                                           !.bound = bound_register_a.value ] ]
                         /\ pc' = "search"
                         /\ UNCHANGED << returned, panic >>
    /\ UNCHANGED << text, computer, steps, prev, calls, loads >>

\* The loop of reverse_engineer_register_a setting registers B and C to the
\* values of the input before the trial
TrialResets ==
    /\ pc = "search"
    /\ LessU64(Top.a, Top.bound)
    /\ register_a' = Top.a
    /\ register_b' = text.register_b
    /\ register_c' = text.register_c
    /\ pointer' = 0
    /\ output' = << >>
    /\ pc' = "run_program_once"
    /\ steps' = 0
    /\ prev' = << >>
    /\ UNCHANGED << text, instructions, frames, printouts, calls, returned, loads,
                    panic >>

\* reverse_engineer_register_a: the loop has a next value `a`; register A is set to
\* it and run_program_once is called, which resets the pointer and the output
Trial ==
    /\ pc = "search"
    /\ LessU64(Top.a, Top.bound)
    /\ register_a' = Top.a
    /\ pointer' = 0
    /\ output' = << >>
    /\ pc' = "run_program_once"
    /\ steps' = 0
    /\ prev' = << >>
    /\ UNCHANGED << text, register_b, register_c, instructions, frames, printouts,
                    calls, returned, loads, panic >>

\* The loop of reverse_engineer_register_a passing over a value after a mismatch
CompareSkips ==
    /\ pc = "printed"
    /\ IF Top.printed = Top.printout
       THEN /\ frames' = Append(frames, Frame(Top.a))
            /\ pc' = "reverse_engineer_register_a"
       ELSE /\ frames' = [ frames EXCEPT ![Len(frames)].a =
                              IF LessU64(AddSmall(@, 2).value, Top.bound)
                              THEN AddSmall(@, 2).value ELSE Top.bound ]
            /\ pc' = "search"
    /\ UNCHANGED << text, computer, printouts, steps, prev, calls, returned, loads,
                    panic >>

\* The loop of reverse_engineer_register_a trying the same value again after a
\* mismatch
CompareStays ==
    /\ pc = "printed"
    /\ IF Top.printed = Top.printout
       THEN /\ frames' = Append(frames, Frame(Top.a))
            /\ pc' = "reverse_engineer_register_a"
       ELSE /\ frames' = frames
            /\ pc' = "search"
    /\ UNCHANGED << text, computer, printouts, steps, prev, calls, returned, loads,
                    panic >>

\* reverse_engineer_register_a: the number printed is compared; on a match the
\* method calls itself with `a`, otherwise the loop goes on
Compare ==
    /\ pc = "printed"
    /\ IF Top.printed = Top.printout
       THEN /\ frames' = Append(frames, Frame(Top.a))
            /\ pc' = "reverse_engineer_register_a"
       ELSE /\ frames' = [ frames EXCEPT ![Len(frames)].a = AddSmall(@, 1).value ]
            /\ pc' = "search"
    /\ UNCHANGED << text, computer, printouts, steps, prev, calls, returned, loads,
                    panic >>

\* reverse_engineer_register_a returning (false, register_a) without the push
ExhaustedDrops ==
    /\ pc = "search"
    /\ ~LessU64(Top.a, Top.bound)
    /\ IF Len(frames) = 1
       THEN /\ returned' = Append(returned,
                                  Returned("find_self_outputing_register_a", "",
                                           Top.register_a, FALSE))
            /\ frames' = << >>
            /\ pc' = "ready"
       ELSE /\ frames' = [ SubSeq(frames, 1, Len(frames) - 1)
                           EXCEPT ![Len(frames) - 1].a = AddSmall(@, 1).value ]
            /\ pc' = "search"
            /\ UNCHANGED returned
    /\ UNCHANGED << text, computer, printouts, steps, prev, calls, loads, panic >>

\* reverse_engineer_register_a: the loop is over without a result; the number goes
\* back to the list and (false, register_a) is returned: the caller's loop goes
\* on, and find_self_outputing_register_a returns the value
Exhausted ==
    /\ pc = "search"
    /\ ~LessU64(Top.a, Top.bound)
    /\ printouts' = Append(printouts, Top.printout)
    /\ IF Len(frames) = 1
       THEN /\ returned' = Append(returned,
                                  Returned("find_self_outputing_register_a", "",
                                           Top.register_a, FALSE))
            /\ frames' = << >>
            /\ pc' = "ready"
       ELSE /\ frames' = [ SubSeq(frames, 1, Len(frames) - 1)
                           EXCEPT ![Len(frames) - 1].a = AddSmall(@, 1).value ]
            /\ pc' = "search"
            /\ UNCHANGED returned
    /\ UNCHANGED << text, computer, steps, prev, calls, loads, panic >>

-----------------------------------------------------------------------------
(* The two parts of the program, and the check of a register value a search  *)
(* found by a full run, on the inputs below.                                 *)

Inputs ==
    { Input(U64(729), Zero, Zero, << 0, 1, 5, 4, 3, 0 >>),
      Input(U64(2024), Zero, Zero, << 0, 3, 5, 4, 3, 0 >>),
      Input(Zero, Zero, Zero, << 5, 0 >>),
      Input(Zero, Zero, Zero, << 5, 4, 0, 3, 3, 0 >>),
      Input(U64(2208021), U64(5), Zero, << 5, 5, 2, 4, 0, 3, 3, 0 >>),
      Input(Zero, U64(4), Zero, << 5, 5, 2, 4 >>),
      Input(U64(10), Zero, Zero, << 5, 4, 8, 0 >>) }

Init == InitWith(Inputs)

Next ==
    \/ FromString
    \/ Reload
    \/ CallRunProgram
    \/ RunProgramStep
    \/ RunProgramReturn
    \/ CallFind
    \/ Enter
    \/ Trial
    \/ RunProgramOnceLoop
    \/ Compare
    \/ Exhausted

Spec == Init /\ [][Next]_vars

-----------------------------------------------------------------------------
(* Calls of run_program and run_program_once on small programs *)

\* instructions of a program
MaxLen == 2

UnitInstructions ==
    { << 0, 1 >>, << 0, 5 >>, << 1, 3 >>, << 2, 4 >>, << 3, 0 >>, << 3, 3 >>,
      << 4, 7 >>, << 5, 4 >>, << 5, 7 >>, << 6, 2 >>, << 7, 6 >> }

UnitRegisters ==
    { << Zero, Zero, Zero >>, << U64(22), U64(70), U64(3) >> }

RECURSIVE Numbers(_)
Numbers(pairs) ==
    IF pairs = << >> THEN << >>
    ELSE << Head(pairs)[1], Head(pairs)[2] >> \o Numbers(Tail(pairs))

UnitInputs ==
    { Input(r[1], r[2], r[3], Numbers(pairs)) :
        r \in UnitRegisters,
        pairs \in UNION { [ 1..n -> UnitInstructions ] : n \in 0..MaxLen } }

InitUnit == InitWith(UnitInputs)

NextUnit ==
    \/ FromString
    \/ CallRunProgram
    \/ RunProgramStep
    \/ RunProgramReturn
    \/ CallRunProgramOnce
    \/ RunProgramOnceLoop

SpecUnit == InitUnit /\ [][NextUnit]_vars

-----------------------------------------------------------------------------
(* Calls of run_program_once on the programs whose jumps all go to 0.  The   *)
(* cycle runs on until run_program_once returns or panics.                   *)

CycleInstructions == { << 0, 1 >>, << 3, 0 >>, << 5, 4 >>, << 5, 7 >> }

CycleInputs ==
    { Input(r[1], r[2], r[3], Numbers(pairs)) :
        r \in UnitRegisters,
        pairs \in UNION { [ 1..n -> CycleInstructions ] : n \in 0..MaxLen } }

InitCycle == InitWith(CycleInputs)

NextCycle ==
    \/ FromString
    \/ CallRunProgramOnce
    \/ RunProgramOnceLoop

SpecCycle ==
    /\ InitCycle
    /\ [][NextCycle]_vars
    /\ WF_vars(RunProgramOnceLoop)

-----------------------------------------------------------------------------
(* Decoding and encoding of every pair of an opcode and an operand *)

\* the largest opcode of an input
MaxOpcode == 9

DecodeInputs ==
    { Input(Zero, Zero, Zero, << opcode, operand >>) :
        opcode \in 0..MaxOpcode, operand \in 0..U8Max }

InitDecode == InitWith(DecodeInputs)

NextDecode ==
    \/ FromString
    \/ CallFind

SpecDecode == InitDecode /\ [][NextDecode]_vars

-----------------------------------------------------------------------------
(* Every instruction executed once, alone or after one instruction that     *)
(* changes a register, on registers from small to the largest u64           *)

\* 2^32 + 1 and u64::MAX
Pow32Plus1 == << 1, 0, 1, 0 >>
U64Max == << Base - 1, Base - 1, Base - 1, Base - 1 >>

StepValues == { Zero, U64(7), U64(63), U64(64), Pow32Plus1, U64Max }

StepPrefixes == { << >>, << 1, 3 >>, << 7, 1 >>, << 0, 1 >> }

\* Bxc with the operands a program of 3-bit numbers does not have
WideOperandInputs ==
    { Input(U64(7), b, Pow32Plus1, << 4, operand >>) :
        b \in { U64(63), U64Max }, operand \in 8..U8Max }

StepInputs ==
    { Input(a, b, c, prefix \o << opcode, operand >>) :
        a \in StepValues, b \in StepValues, c \in StepValues,
        prefix \in StepPrefixes, opcode \in Opcodes, operand \in 0..7 }
    \cup WideOperandInputs

InitStep == InitWith(StepInputs)

NextStep ==
    \/ FromString
    \/ CallRunProgram
    \/ RunProgramStep
    \/ RunProgramReturn

SpecStep == InitStep /\ [][NextStep]_vars

-----------------------------------------------------------------------------------------------------------------------------------------------------
(* The search by itself.  The process runs on until it returns or panics.   *)

SearchInputs ==
    { Input(Zero, Zero, Zero, << 5, 0 >>),
      Input(Zero, Zero, Zero, << 5, 4, 0, 3, 3, 0 >>),
      Input(U64(2024), Zero, Zero, << 0, 3, 5, 4, 3, 0 >>),
      Input(Zero, U64(4), Zero, << 5, 5, 2, 4 >>) }

InitSearch == InitWith(SearchInputs)

NextSearch ==
    \/ FromString
    \/ CallFind
    \/ Enter
    \/ Trial
    \/ RunProgramOnceLoop
    \/ Compare
    \/ Exhausted

SpecSearch ==
    /\ InitSearch
    /\ [][NextSearch]_vars
    /\ WF_vars(Enter \/ Trial \/ RunProgramOnceLoop \/ Compare \/ Exhausted)

-----------------------------------------------------------------------------
(* The search on long programs.  They emit register A mod 8 and go on with   *)
(* instructions that leave A alone, so that the search goes down one call    *)
(* for each of their numbers: to a value near 8^20 with 20 numbers, and into *)
(* the overflow of register_a * 8 with 22.                                   *)

RECURSIVE Repeat(_, _)
Repeat(numbers, times) ==
    IF times = 0 THEN << >> ELSE numbers \o Repeat(numbers, times - 1)

DeepInputs ==
    { Input(Zero, Zero, Zero, << 5, 4 >> \o Repeat(<< 1, 7 >>, 9)),
      Input(Zero, Zero, Zero, << 5, 4 >> \o Repeat(<< 1, 7 >>, 10)),
      Input(Zero, Zero, Zero, << 5, 0 >>) }

InitDeep == InitWith(DeepInputs)

SpecDeep == InitDeep /\ [][NextSearch]_vars

-----------------------------------------------------------------------------
(* What the claims speak of *)

\* run_program to its end, its loop followed for at most `fuel` instructions
RECURSIVE RunProgramLoop(_, _)
RunProgramLoop(self, fuel) ==
    IF Panicked(self) \/ ~HasInstruction(self) \/ fuel = 0 THEN self
    ELSE RunProgramLoop(ExecuteInstruction(self, FetchInstruction(self)), fuel - 1)

\* What run_program returns on the computer `built` with register A set to a; a
\* run that panics or does not end returns nothing.
RunProgramFrom(built, a) ==
    LET end == RunProgramLoop([ built EXCEPT !.register_a = a ], MaxSteps)
    IN  IF Panicked(end) THEN "(panic)"
        ELSE IF HasInstruction(end) THEN "(running)"
        ELSE CreateOutput(end)

\* v is the least value of register A from which run_program on `built` returns
\* the string
Smallest(built, v, string) ==
    /\ RunProgramFrom(built, v) = string
    /\ \A a \in 0..(Small(v) - 1) : RunProgramFrom(built, U64(a)) # string

\* The program as the text run_program would have to return to reproduce it
ProgramText ==
    Join([ i \in 1..(2 * (Len(text.program) \div 2)) |-> U64ToString(text.program[i]) ])

FindReturns ==
    { i \in DOMAIN returned : returned[i].method = "find_self_outputing_register_a" }

\* The calls made on the computer of load l
CallsOn(l) == { i \in DOMAIN calls : calls[i].load = l }

\* method is the only call made on the present computer
OnlyCall(method) ==
    /\ calls # << >>
    /\ CallsOn(loads) = { Len(calls) }
    /\ calls[Len(calls)].method = method

\* run_program, the only call on the present computer, has returned
RanAlone ==
    /\ pc = "ready"
    /\ OnlyCall("run_program")
    /\ Len(returned) = Len(calls)

NoJnz(ins) == \A i \in DOMAIN ins : ins[i].variant # "Jnz"

\* The instruction executed last and the computer before it
Executed == prev[1].instruction
Before == prev[1].self

-----------------------------------------------------------------------------
(* The claims *)

\* C1: whenever the reverse search has returned a value v, run_program on the
\* computer built from the input with register A = v (B and C as in the input)
\* gives as output the numbers of the program, in order and all of them.
C1_FoundValueReproduces ==
    \A i \in FindReturns :
        (RanAlone /\ text.register_a = returned[i].value)
            => output = OutputNumbers(instructions)

\* C2: find_self_outputing_register_a returns a value only when the search
\* finished with success; a search that exhausted its candidates returns none.
C2_ExhaustedSearchReturnsNothing ==
    \A i \in FindReturns : returned[i].finished

\* C3: on the program 0,3,5,4,3,0 every search returns 117440, run_program from
\* that value returns "0,3,5,4,3,0", and from no smaller value of register A.
QuineInput == text.program = << 0, 3, 5, 4, 3, 0 >>

QuineAnswer == U64(117440)

FirstFindReturned ==
    /\ pc = "ready"
    /\ loads = 1
    /\ Len(calls) = 1
    /\ Len(returned) = 1
    /\ FindReturns = { 1 }

C3_QuineSmallest ==
    QuineInput =>
        /\ \A i \in FindReturns : /\ returned[i].finished
                                  /\ returned[i].value = QuineAnswer
        /\ FirstFindReturned =>
              /\ ProgramText = "0,3,5,4,3,0"
              /\ Smallest(FromStringOf(text), returned[1].value, ProgramText)
        /\ \A i \in FindReturns :
              (RanAlone /\ text.register_a = returned[i].value)
                  => returned[Len(returned)].output = ProgramText

C3_Witness ==
    /\ QuineInput
    /\ FirstFindReturned
    /\ returned[1].value = QuineAnswer

\* C4: when a search succeeded with the value v, no run_program from a register A
\* below v gives the numbers of the program as output.
C4_NothingSmallerReproduces ==
    \A i \in FindReturns :
        (/\ returned[i].finished
         /\ RanAlone
         /\ LessU64(text.register_a, returned[i].value))
            => output # OutputNumbers(instructions)

\* C5: with A = 729, B = 0, C = 0 and the program 0,1,5,4,3,0, run_program ends
\* (after 30 instructions) and returns "4,6,3,5,6,3,5,2,1,0".
ExampleInput ==
    text = Input(U64(729), Zero, Zero, << 0, 1, 5, 4, 3, 0 >>)

C5_ExampleOutput ==
    (ExampleInput /\ OnlyCall("run_program")) =>
        /\ pc \in { "run_program", "ready" }
        /\ pc = "run_program" => (steps < 30 <=> HasInstruction(Self))
        /\ pc = "ready" => returned[Len(returned)].output = "4,6,3,5,6,3,5,2,1,0"

C5_Witness ==
    /\ ExampleInput
    /\ RanAlone
    /\ returned[Len(returned)].output = "4,6,3,5,6,3,5,2,1,0"

\* C6: all searches on the same program return the same value, those on the same
\* computer one after the other included.
C6_SearchesAgree ==
    \A i, j \in FindReturns : returned[i].value = returned[j].value

\* C7, as claimed: on a program without a Jnz, run_program on the computer as
\* built never panics, executes the instructions one after the other and returns
\* after exactly Len(instructions) of them with the pointer at Len(instructions).
RunsStraight ==
    /\ pc = "run_program" => /\ pointer = steps
                             /\ steps <= Len(instructions)
                             /\ steps < MaxSteps
    /\ pc = "ready" => /\ steps = Len(instructions)
                       /\ pointer = Len(instructions)

C8_JnzPointer ==
    (prev # << >> /\ Executed.variant = "Jnz") =>
        /\ IsZero(Before.register_a) => pointer = Before.pointer + 1
        /\ ~IsZero(Before.register_a) => pointer = Executed.operand
        /\ register_a = Before.register_a
        /\ register_b = Before.register_b
        /\ register_c = Before.register_c
        /\ output = Before.output

C8_Witness ==
    /\ prev # << >>
    /\ Executed.variant = "Jnz"
    /\ ~IsZero(Before.register_a)
    /\ Before.pointer = 1
    /\ Executed.operand = 0
    /\ pointer = 0

\* C9: for every opcode in 0..7 and operand in 0..255 the numbers as_numbers gives
\* for the instruction parse made of them are the opcode and the operand.
C9_RoundTrip ==
    (/\ pc = "reverse_engineer_register_a"
     /\ Len(frames) = 1
     /\ Len(text.program) = 2) =>
        /\ text.program[1] \in Opcodes
        /\ printouts = text.program

C9_Witness ==
    /\ pc = "reverse_engineer_register_a"
    /\ text.program = << 7, U8Max >>
    /\ printouts = << 7, U8Max >>

\* C10: an opcode outside 0..7 makes parse panic whatever the operand: the
\* computer is never built and holds no instruction.
BadOpcode ==
    \E i \in DOMAIN Captures(text.program) :
        /\ Captures(text.program)[i][1] \notin Opcodes
        /\ \A j \in 1..i : /\ Captures(text.program)[j][1] <= U8Max
                           /\ Captures(text.program)[j][2] <= U8Max

C10_BadOpcodeIsFatal ==
    BadOpcode =>
        /\ pc \in { "start", "panic" }
        /\ pc = "panic" => panic = ParseFailed
        /\ instructions = << >>
        /\ calls = << >>

C10_Witness ==
    /\ pc = "panic"
    /\ panic = ParseFailed
    /\ text.program = << 8, U8Max >>

\* The instructions with a combo operand, and those of them that divide
ComboVariants == { "Adv", "Bst", "Out", "Bdv", "Cdv" }
DivVariants == { "Adv", "Bdv", "Cdv" }

\* What the combo operand of the instruction executed last stands for: itself up
\* to 3, register A, B, C as they were before the instruction for 4, 5, 6
Resolved ==
    CASE Executed.operand \in 0..3 -> U64(Executed.operand)
      [] Executed.operand = 4 -> Before.register_a
      [] Executed.operand = 5 -> Before.register_b
      [] Executed.operand = 6 -> Before.register_c

\* The register the division executed last stores to, as it is now
Quotient ==
    CASE Executed.variant = "Adv" -> register_a
      [] Executed.variant = "Bdv" -> register_b
      [] Executed.variant = "Cdv" -> register_c

Below64(x) == x[1] < 64 /\ x[2] = 0 /\ x[3] = 0 /\ x[4] = 0

\* bit i of x, 0 from bit 64 on
Bit(x, i) == IF i >= 64 THEN 0 ELSE (x[(i \div 16) + 1] \div (2^(i % 16))) % 2

\* q = floor(x / 2^e): the bits of q are those of x from bit e on
IsFloorDiv(q, x, e) == \A i \in 0..63 : Bit(q, i) = Bit(x, i + e)

ExecutedCombo ==
    /\ prev # << >>
    /\ Executed.variant \in ComboVariants

ExecutedDiv ==
    /\ prev # << >>
    /\ Executed.variant \in DivVariants
    /\ Executed.operand \in 0..6

\* C11: an instruction with a combo operand 0..6 works on the operand itself for
\* 0..3 and on register A, B, C as it was when the instruction began for 4, 5, 6:
\* Out appends it mod 8, Bst stores it mod 8, and a division by a power below
\* 2^64 shifts register A by it.
C11_ComboResolves ==
    (ExecutedCombo /\ Executed.operand \in 0..6 /\ pc # "panic") =>
        /\ Executed.variant = "Out" =>
              output = Append(Before.output, Resolved[1] % 8)
        /\ Executed.variant = "Bst" => register_b = U64(Resolved[1] % 8)
        /\ (Executed.variant \in DivVariants /\ Below64(Resolved)) =>
              IsFloorDiv(Quotient, Before.register_a, Resolved[1])

C11_Witness ==
    /\ ExecutedCombo
    /\ pc # "panic"
    /\ steps = 2
    /\ Executed = [ variant |-> "Bdv", operand |-> 6 ]
    /\ Before.register_c = U64(3)
    /\ text.register_c # U64(3)
    /\ Before.register_b = U64Max
    /\ register_b = Zero

\* C12: an instruction with the combo operand 7 panics with the message of
\* get_combo_operand_value and leaves the registers, the pointer and the output as
\* they were.
C12_ComboSevenIsFatal ==
    (ExecutedCombo /\ Executed.operand = 7) =>
        /\ pc = "panic"
        /\ panic = ComboFailed
        /\ Self = Before

C12_Witness ==
    /\ ExecutedCombo
    /\ Executed = [ variant |-> "Cdv", operand |-> 7 ]
    /\ pc = "panic"
    /\ steps = 2
    /\ register_c # register_a
    /\ register_b # text.register_b

\* C13: a division whose exponent, the whole 64-bit value of the combo operand,
\* is 64 or more panics.
C13_LargeExponentIsFatal ==
    (ExecutedDiv /\ ~Below64(Resolved)) => pc = "panic"

\* C14: a division with an exponent e below 64 does not panic and stores
\* floor(A / 2^e), a u64 that is not above A; A = 7 and e = 1 give 3.
C14_FloorDivision ==
    (ExecutedDiv /\ Below64(Resolved)) =>
        /\ pc # "panic"
        /\ IsFloorDiv(Quotient, Before.register_a, Resolved[1])
        /\ \A i \in 1..4 : Quotient[i] \in 0..(Base - 1)
        /\ ~LessU64(Before.register_a, Quotient)
        /\ (Before.register_a = U64(7) /\ Resolved = U64(1)) => Quotient = U64(3)

C14_Witness ==
    /\ ExecutedDiv
    /\ Executed = [ variant |-> "Adv", operand |-> 1 ]
    /\ Before.register_a = U64(7)
    /\ register_a = U64(3)

C14_WitnessWide ==
    /\ ExecutedDiv
    /\ Executed = [ variant |-> "Bdv", operand |-> 5 ]
    /\ Before.register_a = U64Max
    /\ Before.register_b = U64(63)
    /\ register_b = U64(1)

\* The call in progress or returned last is one of run_program_once by itself,
\* outside the search
OnceCalled ==
    /\ calls # << >>
    /\ calls[Len(calls)].method = "run_program_once"

OnceReturned ==
    /\ OnceCalled
    /\ pc = "ready"

\* An instruction of the cycle was executed to its end
CycleExecuted ==
    /\ OnceCalled
    /\ prev # << >>
    /\ panic \notin { ComboFailed, PowFailed }

\* C15: when run_program_once has returned, the output, emptied at the start of
\* the cycle, holds exactly one number.
C15_OneDigitPerCycle ==
    OnceReturned => Len(output) = 1

\* C16: when an instruction of the cycle leaves the pointer at 0 or at the end
\* of the program and the output is empty, run_program_once panics; it never
\* returns with an empty output.
C16_NoOutputIsFatal ==
    /\ (CycleExecuted /\ output = << >> /\ pointer \in { 0, Len(instructions) }) =>
           /\ pc = "panic"
           /\ panic = NoOutput
    /\ OnceReturned => output # << >>

C16_Witness ==
    /\ CycleExecuted
    /\ steps = 2
    /\ output = << >>
    /\ pointer = Len(instructions)
    /\ pc = "panic"
    /\ panic = NoOutput

\* C17: when an instruction of the cycle leaves the pointer at 0, at the end of
\* the program or beyond it, and a number was output, run_program_once has
\* returned, and returned the number output last.
C17_ReturnsPastTheEnd ==
    (/\ CycleExecuted
     /\ output # << >>
     /\ pointer = 0 \/ pointer >= Len(instructions)) =>
        /\ pc = "ready"
        /\ returned[Len(returned)].value = U64(output[Len(output)])

\* A trial of the search, the first call on the computer, is about to run its
\* cycle
TrialStarts ==
    /\ OnlyCall("find_self_outputing_register_a")
    /\ pc = "run_program_once"
    /\ frames # << >>
    /\ steps = 0
    /\ prev = << >>

\* C18: every trial of the search starts with the pointer at 0, the output empty,
\* register A at the value tried and registers B and C as the input gave them.
C18_TrialStartsReset ==
    TrialStarts =>
        /\ pointer = 0
        /\ output = << >>
        /\ register_a = Top.a
        /\ register_b = text.register_b
        /\ register_c = text.register_c

\* The calls of reverse_engineer_register_a that have popped their number
Popped ==
    IF pc = "reverse_engineer_register_a" THEN Len(frames) - 1 ELSE Len(frames)

\* The numbers popped, the one popped last first
PoppedNumbers == [ i \in 1..Popped |-> frames[Popped + 1 - i].printout ]

FirstCandidate(frame) == MulSmall(frame.register_a, 8).value

\* C19: the list of numbers and the numbers the calls in progress hold are
\* together the list the search began with, so a call that fails leaves the list
\* as it found it and its caller goes on with the number it had; after a failed
\* search the list is whole.
C19_FailureRestoresList ==
    /\ frames # << >> => printouts \o PoppedNumbers = OutputNumbers(instructions)
    /\ (/\ frames = << >>
        /\ returned # << >>
        /\ returned[Len(returned)].method = "find_self_outputing_register_a"
        /\ ~returned[Len(returned)].finished) =>
           printouts = OutputNumbers(instructions)

\* a call below the first has just failed: its caller had a match and goes on
C19_Witness ==
    /\ pc = "search"
    /\ Len(frames) >= 2
    /\ Top.printed = Top.printout
    /\ LessU64(FirstCandidate(Top), Top.a)
    /\ LessU64(Top.a, Top.bound)
    /\ printouts \o PoppedNumbers = OutputNumbers(instructions)

\* C20: a call with the value c tries c*8, c*8+1, ... in this order and up to
\* c*8+7, goes one value on after a mismatch or a failed call, calls itself with
\* the value tried only after a match, and a success is returned by every caller
\* at once: the value is the one the last call was given, no caller tries more.
C20_Candidates ==
    [][ /\ (pc = "reverse_engineer_register_a" /\ pc' = "search") =>
              /\ Top'.a = FirstCandidate(Top)
              /\ Top'.bound = AddSmall(FirstCandidate(Top), 8).value
        /\ (pc = "search" /\ pc' = "run_program_once") =>
              /\ ~LessU64(Top.a, FirstCandidate(Top))
              /\ LessU64(Top.a, Top.bound)
              /\ register_a' = Top.a
              /\ frames' = frames
        /\ (pc = "printed" /\ pc' = "search") =>
              /\ Top.printed # Top.printout
              /\ frames' = [ frames EXCEPT ![Len(frames)].a = AddSmall(Top.a, 1).value ]
        /\ (pc = "printed" /\ pc' = "reverse_engineer_register_a") =>
              /\ Top.printed = Top.printout
              /\ SubSeq(frames', 1, Len(frames)) = frames
              /\ Len(frames') = Len(frames) + 1
              /\ Top'.register_a = Top.a
        /\ (pc = "search" /\ pc' = "search") =>
              /\ Top.a = Top.bound
              /\ Len(frames') = Len(frames) - 1
              /\ Top'.a = AddSmall(frames[Len(frames) - 1].a, 1).value
        /\ (pc = "search" /\ pc' = "ready") =>
              /\ Top.a = Top.bound
              /\ Len(frames) = 1
        /\ (pc = "reverse_engineer_register_a" /\ pc' = "ready") =>
              /\ printouts = << >>
              /\ frames' = << >>
              /\ returned'[Len(returned')].value = Top.register_a
              /\ \A k \in 1..(Len(frames) - 1) :
                    /\ frames[k + 1].register_a = frames[k].a
                    /\ frames[k].printed = frames[k].printout
                    /\ LessU64(frames[k].a, frames[k].bound)
      ]_vars

\* the last of the eight values is tried, matches, and the search calls itself
C20_Witness ==
    /\ pc = "reverse_engineer_register_a"
    /\ Len(frames) >= 3
    /\ frames[Len(frames) - 1].a =
           AddSmall(FirstCandidate(frames[Len(frames) - 1]), 7).value
    /\ Top.register_a = frames[Len(frames) - 1].a

\* The search is in progress
InSearch == frames # << >> /\ pc # "panic"

\* The calls of reverse_engineer_register_a that have reached their loop
Looping ==
    IF pc = "reverse_engineer_register_a" \/ panic \in { MulFailed, AddFailed }
    THEN Len(frames) - 1 ELSE Len(frames)

\* The numbers the search has to match
Targets == Len(OutputNumbers(instructions))

\* C21: the search ends, by a return or a panic.  The calls of
\* reverse_engineer_register_a below the first are never more than the numbers
\* to match, a call tries the 8 values from register_a * 8 on and no other, and
\* the search of the program 5,0, which no value satisfies, returns without
\* success.
C21_SearchEnds ==
    /\ [](/\ Len(frames) <= Targets + 1
          /\ Popped <= Targets
          /\ \A k \in 1..Looping :
                /\ ~LessU64(frames[k].a, FirstCandidate(frames[k]))
                /\ frames[k].a \in
                       { AddSmall(FirstCandidate(frames[k]), i).value : i \in 0..8 }
          /\ (text.program = << 5, 0 >> /\ returned # << >>) =>
                ~returned[Len(returned)].finished)
    /\ (InSearch ~> (pc \in { "ready", "panic" }))

C21_Witness ==
    /\ text.program = << 5, 0 >>
    /\ pc = "ready"
    /\ ~InSearch
    /\ Len(returned) = 1
    /\ ~returned[1].finished
    /\ printouts = << 5, 0 >>

\* 8^d, for d up to 21
Pow8(d) ==
    [ i \in 1..4 |-> IF i = ((3 * d) \div 16) + 1 THEN 2^((3 * d) % 16) ELSE 0 ]

\* x < 8^d; 8^22 and more are above every u64
Below8To(x, d) == d > 21 \/ LessU64(x, Pow8(d))

\* C28: the call with d calls above it, one for each number matched, has a value
\* below 8^d and a list of Targets - d numbers before its pop; the values it
\* tries are below 8^(d+1), every value tried or returned is below 8^Targets,
\* and with at most 21 numbers register_a * 8 and the bound do not overflow.
C28_ValuesBounded ==
    /\ \A k \in DOMAIN frames : Below8To(frames[k].register_a, k - 1)
    /\ frames # << >> => Len(printouts) = Targets - Popped
    /\ \A k \in 1..Looping :
          LessU64(frames[k].a, frames[k].bound) =>
              /\ Below8To(frames[k].a, k)
              /\ Below8To(frames[k].a, Targets)
    /\ \A i \in FindReturns : Below8To(returned[i].value, Targets)
    /\ Targets <= 21 =>
          /\ panic \notin { MulFailed, AddFailed }
          /\ \A k \in 1..Looping :
                /\ ~MulSmall(frames[k].register_a, 8).overflow
                /\ ~AddSmall(FirstCandidate(frames[k]), 8).overflow
                /\ frames[k].bound = AddSmall(FirstCandidate(frames[k]), 8).value

\* the search of a program of 20 numbers has gone down 20 calls and returns a
\* value of 20 octal digits
C28_Witness ==
    /\ Targets = 20
    /\ pc = "ready"
    /\ Len(returned) = 1
    /\ returned[1].finished
    /\ ~LessU64(returned[1].value, Pow8(19))
    /\ LessU64(returned[1].value, Pow8(20))

\* The pointer is outside the program
Halted == pointer \notin 0..(Len(instructions) - 1)

\* The output as the string of its numbers with commas between them
OutputString == Join([ i \in DOMAIN output |-> U64ToString(output[i]) ])

\* C22: run_program with the pointer inside the program executes the instruction
\* there; with the pointer outside, at the end or beyond it, it returns the
\* output there is, without a panic and without a change to the computer.
C22_RunStopsOutside ==
    [][ pc = "run_program" =>
          IF ~Halted
          THEN /\ steps' = steps + 1
               /\ prev'[1].instruction = instructions[pointer + 1]
               /\ pc' \in { "run_program", "panic" }
          ELSE /\ pc' = "ready"
               /\ panic' = ""
               /\ UNCHANGED computer
               /\ Len(returned') = Len(returned) + 1
               /\ returned'[Len(returned')].output = OutputString
      ]_vars

\* run_program has returned after a jump beyond the end of the program
C22_Witness ==
    /\ pc = "ready"
    /\ OnlyCall("run_program")
    /\ prev # << >>
    /\ Executed = [ variant |-> "Jnz", operand |-> 3 ]
    /\ pointer = 3
    /\ Len(instructions) = 2
    /\ output = << 6 >>
    /\ returned[Len(returned)].output = "6"

JnzZero ==
    \A i \in DOMAIN instructions :
        instructions[i].variant = "Jnz" => instructions[i].operand = 0

\* C27: on a program whose Jnz all have the operand 0, run_program_once comes to
\* its end, a return or a panic, whatever the registers hold, and has executed
\* no more instructions than the program has, one after the other from the first.
C27_CycleEnds ==
    /\ []((OnceCalled /\ JnzZero) =>
            /\ steps <= Len(instructions)
            /\ pc = "run_program_once" => pointer = steps
            /\ pc = "ready" => steps \in 1..Len(instructions))
    /\ ((OnceCalled /\ JnzZero /\ pc = "run_program_once")
            ~> (pc \in { "ready", "panic" }))

\* a jump back to 0 ends the cycle before the end of the program
C27_Witness ==
    /\ OnceReturned
    /\ JnzZero
    /\ Len(instructions) = 2
    /\ steps = 2
    /\ Executed = [ variant |-> "Jnz", operand |-> 0 ]
    /\ pointer = 0
    /\ ~IsZero(register_a)

\* C29: run_program called with the pointer outside the program executes no
\* instruction, leaves the computer as it is and returns; after a run_program
\* on the same computer it returns the string that one returned.
C29_RunAgainIsIdle ==
    [][ /\ (pc = "ready" /\ pc' = "run_program" /\ Halted) =>
              /\ UNCHANGED computer
              /\ steps' = 0
        /\ (/\ pc = "run_program"
            /\ steps = 0
            /\ Halted
            /\ Len(calls) >= 2
            /\ calls[Len(calls) - 1] = calls[Len(calls)]) =>
              /\ pc' = "ready"
              /\ panic' = ""
              /\ UNCHANGED computer
              /\ steps' = 0
              /\ returned'[Len(returned')].output = returned[Len(returned)].output
      ]_vars

C29_Witness ==
    /\ pc = "ready"
    /\ Len(calls) = 2
    /\ calls[1] = calls[2]
    /\ calls[2].method = "run_program"
    /\ steps = 0
    /\ returned[1].output = "6,6"
    /\ returned[2].output = "6,6"

\* C23: Bdv stores register A / 2^operand value in register B and Cdv in register
\* C, 0 when the power is above every u64; register A, the other register and
\* the output are as before and the pointer is one on.
C23_DivideIntoBAndC ==
    (ExecutedDiv /\ Executed.variant \in { "Bdv", "Cdv" } /\ pc # "panic") =>
        /\ IF Below64(Resolved)
           THEN IsFloorDiv(Quotient, Before.register_a, Resolved[1])
           ELSE Quotient = Zero
        /\ register_a = Before.register_a
        /\ Executed.variant = "Bdv" => register_c = Before.register_c
        /\ Executed.variant = "Cdv" => register_b = Before.register_b
        /\ output = Before.output
        /\ pointer = Before.pointer + 1

\* C24: every number of the output is in 0..7; an Out that does not panic
\* appends one number, its operand value mod 8, to the output as it was, and
\* every other instruction leaves the output as it was.
C24_OutputGrows ==
    /\ \A i \in DOMAIN output : output[i] \in 0..7
    /\ prev # << >> =>
          IF Executed.variant = "Out" /\ pc # "panic"
          THEN output = Append(Before.output, Resolved[1] % 8)
          ELSE output = Before.output

\* a second number is appended to the first
C24_Witness ==
    /\ pc = "run_program"
    /\ steps = 2
    /\ Executed = [ variant |-> "Out", operand |-> 4 ]
    /\ Before.output = << 6 >>
    /\ output = << 6, 6 >>
    /\ register_a = U64(22)

\* C26: Bxc never panics, whatever its operand, 7 and those up to 255 included;
\* it sets register B to B xor C bit by bit and leaves register A, register C
\* and the output as they were, the pointer one on.
C26_BxcIgnoresOperand ==
    (prev # << >> /\ Executed.variant = "Bxc") =>
        /\ pc # "panic"
        /\ \A i \in 0..63 :
              Bit(register_b, i) =
                  (Bit(Before.register_b, i) + Bit(Before.register_c, i)) % 2
        /\ register_a = Before.register_a
        /\ register_c = Before.register_c
        /\ output = Before.output
        /\ pointer = Before.pointer + 1

C26_Witness ==
    /\ prev # << >>
    /\ Executed = [ variant |-> "Bxc", operand |-> 7 ]
    /\ pc # "panic"
    /\ Before.register_b = U64(63)
    /\ Before.register_c = Pow32Plus1
    /\ register_b = << 62, 0, 1, 0 >>

C26_WitnessWide ==
    /\ prev # << >>
    /\ Executed = [ variant |-> "Bxc", operand |-> U8Max ]
    /\ pc # "panic"
    /\ register_b = << 62, 0, 1, 0 >>

\* A step of find_self_outputing_register_a or reverse_engineer_register_a
\* themselves, not of the run_program_once they call
SearchStep ==
    \/ pc \in { "reverse_engineer_register_a", "search", "printed" }
    \/ pc = "ready" /\ pc' = "reverse_engineer_register_a"

TrialStep == pc = "search" /\ pc' = "run_program_once"

\* C25: once the computer is built no step changes its instructions, and the
\* steps of the search itself never change register B or C: before a trial they
\* set register A to the value tried, with the pointer and the output reset by
\* run_program_once, and otherwise they leave the computer alone.
C25_ProgramAndBCUntouched ==
    [][ /\ pc # "start" => instructions' = instructions
        /\ SearchStep =>
              /\ register_b' = register_b
              /\ register_c' = register_c
              /\ IF TrialStep
                 THEN /\ register_a' = Top.a
                      /\ pointer' = 0
                      /\ output' = << >>
                 ELSE UNCHANGED computer
      ]_vars

\* a trial begins with the register B an earlier trial left
C25_Witness ==
    /\ pc = "run_program_once"
    /\ frames # << >>
    /\ steps = 0
    /\ register_a = Top.a
    /\ register_b # text.register_b
    /\ OnlyCall("find_self_outputing_register_a")
    /\ instructions = FromStringOf(text).instructions

====
